---- MODULE Spec2Model ----
(***************************************************************************)
(* Dashboard response serializers (web_app/api/serializers/dashboard.py).  *)
(*                                                                         *)
(* Python values are modelled as follows.                                  *)
(*   str used as data  : a sequence of one-character strings               *)
(*   str used as a key : a TLA+ string                                     *)
(*   dict with str keys: a function whose DOMAIN is the set of keys        *)
(*   ordered dict of balances: a sequence of <<key, value>> pairs          *)
(*   list              : a sequence                                        *)
(*   decimal.Decimal   : [sign, int, exp], int a sequence of digits        *)
(***************************************************************************)
EXTENDS Integers, Sequences, FiniteSets, TLC

VARIABLES
    target,     \* the model class or function the caller invokes
    payload,    \* the caller-owned raw structure handed to it
    given,      \* the argument as it was when the last call was made
    response    \* outcome of the last call

vars == <<target, payload, given, response>>

----------------------------------------------------------------------------
(* Bounds of the explored inputs. *)

MaxDigits == 31
MaxBalances == 2
MaxPositions == 1
MaxProducts == 2

----------------------------------------------------------------------------
(* Character strings. *)

DigitChars == <<"0", "1", "2", "3", "4", "5", "6", "7", "8", "9">>

IsDigit(c) == \E i \in 1..10 : DigitChars[i] = c

DigitVal(c) == (CHOOSE i \in 1..10 : DigitChars[i] = c) - 1

Rep(x, n) == [i \in 1..n |-> x]

RECURSIVE IntToChars(_)
IntToChars(n) ==
    IF n < 10 THEN <<DigitChars[n + 1]>>
    ELSE IntToChars(n \div 10) \o <<DigitChars[(n % 10) + 1]>>

----------------------------------------------------------------------------
(* decimal.Decimal under the default context: the arithmetic that line 52  *)
(* of dashboard.py performs, Decimal(balance) / Decimal(10**decimals).     *)

Prec == 28

RECURSIVE StripLeadingZeros(_)
StripLeadingZeros(ds) ==
    IF Len(ds) > 1 /\ ds[1] = 0 THEN StripLeadingZeros(Tail(ds)) ELSE ds

AllZeros(ds, from) == \A i \in from..Len(ds) : ds[i] = 0

\* Decimal(str): does the string match the numeric-string grammar?  The
\* explored strings hold digits, "-" and letters only, so the grammar is
\* sign? digits+.
DecimalSyntaxOK(s) ==
    LET body == IF Len(s) > 0 /\ s[1] \in {"-", "+"} THEN Tail(s) ELSE s
    IN  Len(body) > 0 /\ \A i \in 1..Len(body) : IsDigit(body[i])

\* Mutant: the sign of the string is dropped.
DecimalFromString_Unsigned(s) ==
    LET body == IF s[1] \in {"-", "+"} THEN Tail(s) ELSE s
    IN  [sign |-> 0,
         int |-> StripLeadingZeros([i \in 1..Len(body) |-> DigitVal(body[i])]),
         exp |-> 0]

\* Decimal(str) for a string the grammar accepts: int(intpart), exponent 0.
DecimalFromString(s) ==
    LET neg == s[1] = "-"
        body == IF s[1] \in {"-", "+"} THEN Tail(s) ELSE s
    IN  [sign |-> IF neg THEN 1 ELSE 0,
         int |-> StripLeadingZeros([i \in 1..Len(body) |-> DigitVal(body[i])]),
         exp |-> 0]

\* coeff + 1 on a digit sequence.
RECURSIVE Incr(_)
Incr(ds) ==
    IF Len(ds) = 0 THEN <<1>>
    ELSE IF ds[Len(ds)] < 9
         THEN SubSeq(ds, 1, Len(ds) - 1) \o <<ds[Len(ds)] + 1>>
         ELSE Incr(SubSeq(ds, 1, Len(ds) - 1)) \o <<0>>

\* Decimal._round_half_even(prec): +1 when the coefficient is rounded up.
RoundHalfEven(ds, keep) ==
    LET exactHalf == ds[keep + 1] = 5 /\ AllZeros(ds, keep + 2)
    IN  IF exactHalf /\ (keep = 0 \/ ds[keep] % 2 = 0) THEN -1
        ELSE IF ds[keep + 1] >= 5 THEN 1
        ELSE IF AllZeros(ds, keep + 1) THEN 0
        ELSE -1

\* Decimal._fix(context): round to the context precision.
Fix(x) ==
    IF x.int = <<0>> THEN x
    ELSE
    LET exp_min == Len(x.int) + x.exp - Prec
    IN  IF x.exp >= exp_min THEN x
        ELSE
        LET kept == SubSeq(x.int, 1, Prec)
            changed == RoundHalfEven(x.int, Prec)
            coeff == IF changed > 0 THEN Incr(kept) ELSE kept
        IN  IF Len(coeff) > Prec
            THEN [sign |-> x.sign, int |-> SubSeq(coeff, 1, Len(coeff) - 1),
                  exp |-> exp_min + 1]
            ELSE [sign |-> x.sign, int |-> coeff, exp |-> exp_min]

\* Mutant: an exact quotient keeps the exponent the division computed.
TowardsIdeal_Keep(coeff, exp, ideal) == [int |-> coeff, exp |-> exp]

\* Strip trailing zeros while the exponent is below the ideal exponent.
RECURSIVE TowardsIdeal(_, _, _)
TowardsIdeal(coeff, exp, ideal) ==
    IF exp < ideal /\ Len(coeff) > 1 /\ coeff[Len(coeff)] = 0
    THEN TowardsIdeal(SubSeq(coeff, 1, Len(coeff) - 1), exp + 1, ideal)
    ELSE [int |-> coeff, exp |-> exp]

\* Decimal.__truediv__(x, Decimal(10**decimals)): the divisor's coefficient is
\* 1 followed by `decimals` zeros and its exponent is 0.
TrueDivPow10(x, decimals) ==
    IF x.int = <<0>> THEN [sign |-> x.sign, int |-> <<0>>, exp |-> x.exp]
    ELSE
    LET shift == (decimals + 1) - Len(x.int) + Prec + 1
        exp == x.exp - shift
        num == IF shift >= 0 THEN x.int \o Rep(0, shift) ELSE x.int
        k == IF shift >= 0 THEN decimals ELSE decimals - shift
        quot == SubSeq(num, 1, Len(num) - k)
        exact == AllZeros(num, Len(num) - k + 1)
        last == quot[Len(quot)]
        sticky == IF last % 5 = 0
                  THEN SubSeq(quot, 1, Len(quot) - 1) \o <<last + 1>>
                  ELSE quot
        r == IF exact THEN TowardsIdeal(quot, exp, x.exp)
             ELSE [int |-> sticky, exp |-> exp]
    IN  Fix([sign |-> x.sign, int |-> r.int, exp |-> r.exp])

\* Decimal.__str__: scientific notation when the exponent is positive or the
\* number has more than six leading fractional zeros.
DecimalToString(x) ==
    LET n == Len(x.int)
        leftdigits == x.exp + n
        dotplace == IF x.exp <= 0 /\ leftdigits > -6 THEN leftdigits ELSE 1
        chars == [i \in 1..n |-> DigitChars[x.int[i] + 1]]
        intpart == IF dotplace <= 0 THEN <<"0">>
                   ELSE IF dotplace >= n THEN chars \o Rep("0", dotplace - n)
                   ELSE SubSeq(chars, 1, dotplace)
        fracpart == IF dotplace <= 0 THEN <<".">> \o Rep("0", -dotplace) \o chars
                    ELSE IF dotplace >= n THEN <<>>
                    ELSE <<".">> \o SubSeq(chars, dotplace + 1, n)
        e == leftdigits - dotplace
        exppart == IF e = 0 THEN <<>>
                   ELSE IF e > 0 THEN <<"E", "+">> \o IntToChars(e)
                   ELSE <<"E", "-">> \o IntToChars(-e)
    IN  (IF x.sign = 1 THEN <<"-">> ELSE <<>>) \o intpart \o fracpart \o exppart

----------------------------------------------------------------------------
(* Python values and outcomes of a call. *)

PyNone == [type |-> "NoneType", val |-> ""]

PyStr(s) == [type |-> "str", val |-> s]

EmptyDict == [k \in {} |-> k]

\* d[k] = v on a dict.
SetItem(d, k, v) == [x \in (DOMAIN d) \cup {k} |-> IF x = k THEN v ELSE d[x]]

\* d.pop(k, None): the dict that is left.
Pop(d, k) == [x \in (DOMAIN d) \ {k} |-> d[x]]

Ok(v) == [status |-> "ok", value |-> v, error |-> <<>>]

Raise(kind, msg) == [status |-> kind, value |-> <<>>, error |-> msg]

NoResponse == [status |-> "none", value |-> <<>>, error |-> <<>>]

\* pydantic turns a ValueError (ValidationError is one) raised by a validator
\* into an error of the enclosing validation; any other exception propagates.
IsValueError(r) == r.status \in {"ValueError", "ValidationError"}

Propagates(r) == r.status # "ok" /\ ~IsValueError(r)

----------------------------------------------------------------------------
(* TokenParams.get_token_decimals (web_app.contract_tools.constants): the  *)
(* decimals of a known token, an error for any other address.              *)

TokenDecimals == [t \in {"0xTOK", "0xETH", "0xUNIT"} |->
                    IF t = "0xTOK" THEN 6 ELSE IF t = "0xETH" THEN 18 ELSE 0]

get_token_decimals(token_address) ==
    IF token_address \in DOMAIN TokenDecimals
    THEN Ok(TokenDecimals[token_address])
    ELSE Raise("ValueError", <<"token not found: ", token_address>>)

----------------------------------------------------------------------------
(* Position.convert_total_balances (lines 40-56). *)

ConversionSyntax == <<"[<class 'decimal.ConversionSyntax'>]">>

\* The body of the loop for one item (lines 47-55).
ConvertBalance(token_address, balance) ==
    LET decimals == get_token_decimals(token_address)
    IN  IF decimals.status = "ValueError"
        THEN Raise("ValueError",
                   <<"Error in balance conversion: ">> \o decimals.error)
        ELSE IF ~DecimalSyntaxOK(balance)
        THEN Raise("InvalidOperation", ConversionSyntax)
        ELSE Ok(DecimalToString(
                    TrueDivPow10(DecimalFromString(balance), decimals.value)))

\* The loop of lines 45-56 given each item's outcome: the first item that
\* raises ends the call, otherwise every item is in the returned dict.
CollectBalances(balances, outcomes) ==
    LET bad == {i \in 1..Len(balances) : outcomes[i].status # "ok"}
    IN  IF bad = {}
        THEN Ok([i \in 1..Len(balances) |-> <<balances[i][1], outcomes[i].value>>])
        ELSE LET first == CHOOSE i \in bad : \A j \in bad : i <= j
             IN  Raise(outcomes[first].status, outcomes[first].error)

\* `balances` is the dict in iteration order, a sequence of <<key, value>>.
convert_total_balances(balances) ==
    CollectBalances(balances,
        [i \in 1..Len(balances) |-> ConvertBalance(balances[i][1], balances[i][2])])

----------------------------------------------------------------------------
(* Position (lines 31-63). *)

\* Mutant: fields are read by alias only.
populate_by_name_Off == FALSE

\* Config.populate_by_name (line 63).
populate_by_name == TRUE

\* The input key a field is read from: its alias, or its name when
\* populate_by_name is set; "" when the input has neither.
FieldKey(p, alias, name) ==
    IF alias \in DOMAIN p THEN alias
    ELSE IF populate_by_name /\ name \in DOMAIN p THEN name
    ELSE ""

\* The validated Position given the outcome of the total_balances validator
\* (`converted`; the validator is not run when the field is missing).
BuildPosition(p, tokKey, balKey, converted) ==
    LET dataErr == IF "data" \in DOMAIN p THEN <<>>
                   ELSE <<"data: Field required">>
        balErr == IF balKey = "" THEN <<"totalBalances: Field required">>
                  ELSE IF converted.status = "ok" THEN <<>>
                  ELSE <<"totalBalances: Value error, ">> \o converted.error
    IN  IF balKey # "" /\ Propagates(converted)
        THEN Raise(converted.status, converted.error)
        ELSE IF dataErr \o balErr # <<>>
        THEN Raise("ValidationError", dataErr \o balErr)
        ELSE Ok([data |-> p["data"],
                 token_address |-> IF tokKey = "" THEN PyNone ELSE p[tokKey],
                 total_balances |-> converted.value])

TotalBalancesOf(p, balKey) ==
    IF balKey = "" THEN Raise("ValueError", <<>>)
    ELSE convert_total_balances(p[balKey])

PositionAt(p, tokKey, balKey) ==
    BuildPosition(p, tokKey, balKey, TotalBalancesOf(p, balKey))

Position(p) ==
    PositionAt(p, FieldKey(p, "tokenAddress", "token_address"),
                  FieldKey(p, "totalBalances", "total_balances"))

----------------------------------------------------------------------------
(* Product (lines 66-73), built from keyword arguments. *)

\* The validated Product given the outcome of each item of `positions`.
BuildProduct(kwargs, items) ==
    LET nameErr == IF "name" \in DOMAIN kwargs THEN <<>>
                   ELSE <<"name: Field required">>
        hrErr == IF "health_ratio" \notin DOMAIN kwargs
                 THEN <<"health_ratio: Field required">>
                 ELSE IF kwargs["health_ratio"].type # "str"
                 THEN <<"health_ratio: Input should be a valid string">>
                 ELSE <<>>
        escaped == {i \in 1..Len(items) : Propagates(items[i])}
        failed == {i \in 1..Len(items) : items[i].status # "ok"}
        posErr == IF "positions" \notin DOMAIN kwargs
                  THEN <<"positions: Field required">>
                  ELSE IF failed = {} THEN <<>>
                  ELSE LET i == CHOOSE i \in failed : \A j \in failed : i <= j
                       IN  <<"positions: ">> \o items[i].error
    IN  IF escaped # {}
        THEN LET i == CHOOSE i \in escaped : \A j \in escaped : i <= j
             IN  Raise(items[i].status, items[i].error)
        ELSE IF nameErr \o hrErr \o posErr # <<>>
        THEN Raise("ValidationError", nameErr \o hrErr \o posErr)
        ELSE Ok([name |-> kwargs["name"],
                 health_ratio |-> kwargs["health_ratio"],
                 positions |-> [i \in 1..Len(items) |-> items[i].value]])

PositionsOf(raw) == [i \in 1..Len(raw) |-> Position(raw[i])]

Product(kwargs) ==
    BuildProduct(kwargs,
        IF "positions" \in DOMAIN kwargs THEN PositionsOf(kwargs["positions"])
        ELSE <<>>)

----------------------------------------------------------------------------
(* ZkLendPositionResponse (lines 76-101). *)

NoneHasNoGet == <<"'NoneType' object has no attribute 'get'">>

\* Mutant: the health ratio is read from the last group instead of group "1".
HealthRatioOf_LastGroup(groups) ==
    IF DOMAIN groups = {} THEN PyNone
    ELSE LET g == IF "2" \in DOMAIN groups THEN "2" ELSE "1"
         IN  IF "healthRatio" \notin DOMAIN groups[g] THEN PyNone
             ELSE groups[g]["healthRatio"]

\* groups.get("1", {}).get("healthRatio") (line 91), groups a dict.
HealthRatioOf(groups) ==
    IF "1" \notin DOMAIN groups THEN PyNone
    ELSE IF "healthRatio" \notin DOMAIN groups["1"] THEN PyNone
    ELSE groups["1"]["healthRatio"]

\* The product dict after lines 90-91: groups popped, health_ratio set
\* (not set when there were no groups: line 91 raises).
Reshaped(product) ==
    IF "groups" \notin DOMAIN product THEN product
    ELSE SetItem(Pop(product, "groups"), "health_ratio",
                 HealthRatioOf(product["groups"]))

\* The outcome of lines 90-92 for one product, `updated` its reshaped dict.
BuildFrom(product, updated) ==
    IF "groups" \notin DOMAIN product
    THEN Raise("AttributeError", NoneHasNoGet)
    ELSE Product(updated)

\* Mutant: each product is put in front of those converted so far.
AppendConverted_Prepend(converted, product) == <<product>> \o converted

\* converted_products.append(...) (line 92).
AppendConverted(converted, product) == Append(converted, product)

\* The loop of lines 89-92 from index i on; `products` is the caller's list,
\* whose dicts the loop changes in place.
RECURSIVE ConvertFrom(_, _, _)
RECURSIVE ConvertStep(_, _, _, _)
ConvertStep(products, i, converted, built) ==
    IF built.status = "ok"
    THEN ConvertFrom(products, i + 1, AppendConverted(converted, built.value))
    ELSE [result |-> built, products |-> products]

ConvertFrom(products, i, converted) ==
    IF i > Len(products)
    THEN [result |-> Ok(converted), products |-> products]
    ELSE ConvertStep([products EXCEPT ![i] = Reshaped(products[i])], i, converted,
                     BuildFrom(products[i], Reshaped(products[i])))

convert_products(products) == ConvertFrom(products, 1, <<>>)

\* The outcome of validating `raw` given what convert_products did.
ZkLendOutcome(raw, c) ==
    [result |-> IF c.result.status = "ok"
                THEN Ok([products |-> c.result.value])
                ELSE IF IsValueError(c.result)
                THEN Raise("ValidationError",
                           <<"products: Value error, ">> \o c.result.error)
                ELSE c.result,
     raw |-> [raw EXCEPT !["products"] = c.products]]

\* Validation of a raw dict: the outcome and the raw dict afterwards.  Without
\* a products key the default (an empty list) is used and no validator runs.
ZkLendPositionResponse(raw) ==
    IF "products" \notin DOMAIN raw
    THEN [result |-> Ok([products |-> <<>>]), raw |-> raw]
    ELSE ZkLendOutcome(raw, convert_products(raw["products"]))

----------------------------------------------------------------------------
(* DashboardResponse (lines 104-126). *)

\* Mutant: zklend_position has a default and may be left out.
RequiredFields_ZkOptional == <<"balances", "multipliers", "start_dates">>

\* The fields declared with Field(...): required, read under their own names.
RequiredFields == <<"balances", "multipliers", "start_dates", "zklend_position">>

\* The outcome given the outcome `zk` of validating raw["zklend_position"].
DashboardOutcome(raw, zk) ==
    LET missing == SelectSeq(RequiredFields, LAMBDA f : f \notin DOMAIN raw)
        hasZk == "zklend_position" \in DOMAIN raw
        after == IF hasZk THEN [raw EXCEPT !["zklend_position"] = zk.raw] ELSE raw
        zkErr == IF zk.result.status = "ok" THEN <<>>
                 ELSE <<"zklend_position: ">> \o zk.result.error
        field(f) == IF f = "zklend_position"
                    THEN (IF hasZk THEN zk.result.value ELSE PyNone)
                    ELSE (IF f \in DOMAIN raw THEN raw[f] ELSE PyNone)
    IN  IF Propagates(zk.result)
        THEN [result |-> zk.result, raw |-> after]
        ELSE IF Len(missing) > 0 \/ zkErr # <<>>
        THEN [result |-> Raise("ValidationError",
                               missing
                                   \o (IF Len(missing) > 0
                                       THEN <<": Field required; ">> ELSE <<>>)
                                   \o zkErr),
              raw |-> after]
        ELSE [result |-> Ok([balances |-> field("balances"),
                             multipliers |-> field("multipliers"),
                             start_dates |-> field("start_dates"),
                             zklend_position |-> field("zklend_position")]),
              raw |-> after]

DashboardResponse(raw) ==
    DashboardOutcome(raw,
        IF "zklend_position" \in DOMAIN raw
        THEN ZkLendPositionResponse(raw["zklend_position"])
        ELSE [result |-> Ok([products |-> <<>>]), raw |-> EmptyDict])

----------------------------------------------------------------------------
(* The inputs explored. *)

Tokens == {"0xTOK", "0xETH", "0xUNIT", "0xBAD"}

SeqsUpTo(S, n) == UNION {[1..k -> S] : k \in 0..n}

\* Raw balances of every length up to MaxDigits: 9...9, 10...0, 10...01, 10...05.
LongStrings ==
    UNION {{Rep("9", n), <<"1">> \o Rep("0", n - 1)} : n \in 1..MaxDigits}
    \cup UNION {{<<"1">> \o Rep("0", n - 2) \o <<"1">>,
                 <<"1">> \o Rep("0", n - 2) \o <<"5">>} : n \in 2..MaxDigits}

Million == <<"1", "0", "0", "0", "0", "0", "0">>

ShortStrings == {Million, <<"5">>, <<"0">>, <<"-", "5">>, <<"a", "b", "c">>,
                 <<"1", "2", "a">>, <<>>}

DistinctKeys(balances) ==
    \A i, j \in 1..Len(balances) : balances[i][1] = balances[j][1] => i = j

BalanceInputs ==
    {<<<<t, b>>>> : t \in Tokens, b \in LongStrings}
    \cup {bs \in SeqsUpTo(Tokens \X ShortStrings, MaxBalances) : DistinctKeys(bs)}

DataInput == [collateral |-> TRUE, debt |-> FALSE]

PositionBalances ==
    {<<>>,
     <<<<"0xTOK", Million>>>>,
     <<<<"0xTOK", <<"a", "b", "c">>>>>>,
     <<<<"0xBAD", <<"5">>>>>>,
     <<<<"0xTOK", <<"-", "5">>>>>>,
     <<<<"0xTOK", Million>>, <<"0xBAD", <<"5">>>>>>,
     <<<<"0xTOK", Million>>, <<"0xETH", <<"a", "b", "c">>>>>>}

\* A raw position: each optional key left out ("") or spelled as given.
RawPosition(hasData, tokKey, balKey, balances) ==
    LET d0 == IF hasData THEN SetItem(EmptyDict, "data", DataInput) ELSE EmptyDict
        d1 == IF tokKey = "" THEN d0 ELSE SetItem(d0, tokKey, PyStr("0xTOK"))
    IN  IF balKey = "" THEN d1 ELSE SetItem(d1, balKey, balances)

PositionInputs ==
    {RawPosition(hasData, tokKey, balKey, balances) :
        hasData \in BOOLEAN,
        tokKey \in {"", "tokenAddress", "token_address"},
        balKey \in {"", "totalBalances", "total_balances"},
        balances \in PositionBalances}

\* The positions met inside products: the same position in both spellings.
ProductPositions ==
    {RawPosition(TRUE, "tokenAddress", "totalBalances", <<<<"0xTOK", Million>>>>),
     RawPosition(TRUE, "token_address", "total_balances", <<<<"0xTOK", Million>>>>)}

Group(ratio) == [healthRatio |-> PyStr(ratio)]

GroupsInputs ==
    {EmptyDict,
     SetItem(EmptyDict, "2", Group("9.9")),
     SetItem(EmptyDict, "1", EmptyDict),
     SetItem(EmptyDict, "1", Group("2.0")),
     SetItem(SetItem(EmptyDict, "1", Group("1.5")), "2", Group("9.9"))}

\* A product whose one position holds a balance that does not parse.
UnparsableProduct ==
    [name |-> "P1",
     groups |-> SetItem(EmptyDict, "1", Group("2.0")),
     positions |-> <<RawPosition(TRUE, "tokenAddress", "totalBalances",
                                 <<<<"0xTOK", <<"a", "b", "c">>>>>>)>>]

ProductInputs ==
    LET base == {[name |-> "P1", positions |-> ps] :
                    ps \in SeqsUpTo(ProductPositions, MaxPositions)}
    IN  base \cup {SetItem(b, "groups", g) : b \in base, g \in GroupsInputs}
             \cup {UnparsableProduct}

ZkLendInputs ==
    {EmptyDict} \cup {[products |-> ps] : ps \in SeqsUpTo(ProductInputs, MaxProducts)}

BalancesInput == [ETH |-> "5.0"]

MultipliersInput == [ETH |-> 2]

StartDatesInput == [ETH |-> "2024-01-01T00:00:00"]

\* A raw dashboard payload holding the given top-level keys.
RawDashboard(keys, zk) ==
    [k \in keys |->
        IF k = "balances" THEN BalancesInput
        ELSE IF k = "multipliers" THEN MultipliersInput
        ELSE IF k \in {"start_dates", "startDates"} THEN StartDatesInput
        ELSE zk]

InternalKeys == {"balances", "multipliers", "start_dates", "zklend_position"}

WireKeys == {"balances", "multipliers", "startDates", "zklendPosition"}

DashboardInputs ==
    {RawDashboard(keys, [products |-> ps]) :
        keys \in (SUBSET InternalKeys) \cup {WireKeys},
        ps \in SeqsUpTo(ProductInputs, 1)}

----------------------------------------------------------------------------
(* The caller builds a raw structure and calls one of the entry points,    *)
(* any number of times, on the structure it holds.                         *)

Init ==
    /\ \/ target = "convert_total_balances" /\ payload \in BalanceInputs
       \/ target = "Position" /\ payload \in PositionInputs
       \/ target = "ZkLendPositionResponse" /\ payload \in ZkLendInputs
       \/ target = "DashboardResponse" /\ payload \in DashboardInputs
    /\ given = payload
    /\ response = NoResponse

CallConvertTotalBalances ==
    /\ target = "convert_total_balances"
    /\ response' = convert_total_balances(payload)
    /\ given' = payload
    /\ UNCHANGED <<target, payload>>

CallPosition ==
    /\ target = "Position"
    /\ response' = Position(payload)
    /\ given' = payload
    /\ UNCHANGED <<target, payload>>

CallZkLendPositionResponse ==
    /\ target = "ZkLendPositionResponse"
    /\ LET r == ZkLendPositionResponse(payload)
       IN  /\ response' = r.result
           /\ payload' = r.raw
    /\ given' = payload
    /\ UNCHANGED target

CallDashboardResponse ==
    /\ target = "DashboardResponse"
    /\ LET r == DashboardResponse(payload)
       IN  /\ response' = r.result
           /\ payload' = r.raw
    /\ given' = payload
    /\ UNCHANGED target

Next ==
    \/ CallConvertTotalBalances
    \/ CallPosition
    \/ CallZkLendPositionResponse
    \/ CallDashboardResponse

Spec == Init /\ [][Next]_vars

Called == response.status # "none"

----------------------------------------------------------------------------
(* Reading a rendered decimal back as a number, to compare values. *)

RangeOf(seq) == {seq[i] : i \in 1..Len(seq)}

IndexOf(seq, c) ==
    IF c \in RangeOf(seq) THEN CHOOSE i \in 1..Len(seq) :
                                  seq[i] = c /\ \A j \in 1..(i - 1) : seq[j] # c
    ELSE 0

RECURSIVE ParseNat(_)
ParseNat(chars) ==
    IF Len(chars) = 0 THEN 0
    ELSE 10 * ParseNat(SubSeq(chars, 1, Len(chars) - 1)) + DigitVal(chars[Len(chars)])

RECURSIVE StripTrailingZeros(_, _)
StripTrailingZeros(ds, exp) ==
    IF Len(ds) > 1 /\ ds[Len(ds)] = 0
    THEN StripTrailingZeros(SubSeq(ds, 1, Len(ds) - 1), exp + 1)
    ELSE [int |-> ds, exp |-> exp]

\* The number (-1)^neg * ds * 10^exp in its one canonical form.
Canon(neg, ds, exp) ==
    LET lead == StripLeadingZeros(ds)
        t == StripTrailingZeros(lead, exp)
    IN  IF lead = <<0>> THEN [neg |-> FALSE, int |-> <<0>>, exp |-> 0]
        ELSE [neg |-> neg, int |-> t.int, exp |-> t.exp]

\* The number a rendering such as -12.50E+3 denotes.
RenderedValue(r) ==
    LET neg == Len(r) > 0 /\ r[1] = "-"
        body == IF neg THEN Tail(r) ELSE r
        e == IndexOf(body, "E")
        mant == IF e = 0 THEN body ELSE SubSeq(body, 1, e - 1)
        expo == IF e = 0 THEN 0
                ELSE IF body[e + 1] = "-"
                     THEN 0 - ParseNat(SubSeq(body, e + 2, Len(body)))
                     ELSE ParseNat(SubSeq(body, e + 2, Len(body)))
        dot == IndexOf(mant, ".")
        digits == SelectSeq(mant, IsDigit)
        frac == IF dot = 0 THEN 0 ELSE Len(mant) - dot
    IN  Canon(neg, [i \in 1..Len(digits) |-> DigitVal(digits[i])], expo - frac)

\* raw / 10^d for an integer string raw.
ExactQuotient(raw, d) ==
    LET neg == raw[1] = "-"
        body == IF raw[1] \in {"-", "+"} THEN Tail(raw) ELSE raw
    IN  Canon(neg, [i \in 1..Len(body) |-> DigitVal(body[i])], 0 - d)

IsIntegerString(s) == DecimalSyntaxOK(s)

IsNegativeString(s) == DecimalSyntaxOK(s) /\ s[1] = "-"

KnownToken(t) == t \in DOMAIN TokenDecimals

\* The first item of a balances dict that the conversion fails on, 0 if none.
FirstFailing(balances) ==
    LET bad == {i \in 1..Len(balances) :
                   ~KnownToken(balances[i][1]) \/ ~DecimalSyntaxOK(balances[i][2])}
    IN  IF bad = {} THEN 0 ELSE CHOOSE i \in bad : \A j \in bad : i <= j

----------------------------------------------------------------------------
(* Claims about convert_total_balances. *)

\* C1: for every mapping of known token addresses to integer strings of any
\* length, convert_total_balances returns a mapping with the same keys whose
\* values render rawValue / 10^decimals exactly, without rounding.
C1_ExactQuotient ==
    (/\ target = "convert_total_balances"
     /\ Called
     /\ \A i \in 1..Len(given) :
            KnownToken(given[i][1]) /\ IsIntegerString(given[i][2]))
    => /\ response.status = "ok"
       /\ Len(response.value) = Len(given)
       /\ \A i \in 1..Len(given) :
            /\ response.value[i][1] = given[i][1]
            /\ RenderedValue(response.value[i][2])
                   = ExactQuotient(given[i][2], TokenDecimals[given[i][1]])

\* C2: when a raw balance does not parse or the decimals lookup fails, the
\* validation of the position returns no mapping and fails with a validation
\* error whose message carries the underlying error message.
C2_FailureIsValidationError ==
    LET key == FieldKey(given, "totalBalances", "total_balances")
        first == FirstFailing(given[key])
        cause == ConvertBalance(given[key][first][1], given[key][first][2]).error
    IN  (/\ target = "Position"
         /\ Called
         /\ key # ""
         /\ first # 0)
        => /\ response.status = "ValidationError"
           /\ response.value = <<>>
           /\ RangeOf(cause) \subseteq RangeOf(response.error)

\* C7 as stated: a negative number string is rejected, and no normalized
\* mapping holds a negative value.
C7_NegativeRejected ==
    (/\ target = "convert_total_balances"
     /\ Called)
    => /\ (\E i \in 1..Len(given) : IsNegativeString(given[i][2]))
            => response.status # "ok"
       /\ response.status = "ok"
            => \A i \in 1..Len(response.value) : response.value[i][2][1] # "-"

\* C7: a negative number string is accepted and normalized to the negative
\* quotient; a value that does not parse as a number makes the normalization
\* fail, and then no mapping is returned.
C7_NegativeAccepted ==
    (/\ target = "convert_total_balances"
     /\ Called
     /\ \A i \in 1..Len(given) : KnownToken(given[i][1]))
    => /\ (\A i \in 1..Len(given) : DecimalSyntaxOK(given[i][2]))
            => /\ response.status = "ok"
               /\ \A i \in 1..Len(given) :
                    IsNegativeString(given[i][2])
                        <=> response.value[i][2][1] = "-"
       /\ (\E i \in 1..Len(given) : ~DecimalSyntaxOK(given[i][2]))
            => response.status # "ok" /\ response.value = <<>>

C7_Witness ==
    /\ target = "convert_total_balances"
    /\ given = <<<<"0xTOK", <<"-", "5">>>>>>
    /\ response.status = "ok"
    /\ response.value[1][2] = <<"-", "0", ".", "0", "0", "0", "0", "0", "5">>

----------------------------------------------------------------------------
(* Claims about convert_products. *)

HasProducts(raw) == "products" \in DOMAIN raw

\* The raw product names group "1" and that group holds a health ratio.
HasGroupOneRatio(product) ==
    /\ "groups" \in DOMAIN product
    /\ "1" \in DOMAIN product["groups"]
    /\ "healthRatio" \in DOMAIN product["groups"]["1"]

\* C3: a raw product with no groups field, with empty groups, or with groups
\* lacking key "1" does not make the validation fail; its Product has a None
\* health ratio.
C3_MissingGroupOneYieldsNone ==
    (/\ target = "ZkLendPositionResponse"
     /\ Called
     /\ HasProducts(given)
     /\ \A i \in 1..Len(given["products"]) :
            LET product == given["products"][i]
            IN  "groups" \in DOMAIN product => "1" \notin DOMAIN product["groups"])
    => /\ response.status = "ok"
       /\ \A i \in 1..Len(given["products"]) :
            response.value.products[i].health_ratio = PyNone

\* Every position of the raw product validates.
PositionsValidate(product) ==
    \A j \in 1..Len(product["positions"]) :
        Position(product["positions"][j]).status = "ok"

\* C4: a raw product whose groups hold key "1" with health ratio h yields,
\* when its positions validate, a Product with health ratio h and without
\* groups, whatever other groups the raw product names; the raw product is
\* left with health_ratio h in place of its groups.
C4_GroupOneHealthRatio ==
    (/\ target = "ZkLendPositionResponse"
     /\ Called
     /\ HasProducts(given))
    => LET products == given["products"]
           built(j) == HasGroupOneRatio(products[j]) /\ PositionsValidate(products[j])
           ratio(i) == products[i]["groups"]["1"]["healthRatio"]
       IN  /\ \A i \in 1..Len(products) :
                (HasGroupOneRatio(products[i]) /\ \A j \in 1..(i - 1) : built(j))
                    => /\ "groups" \notin DOMAIN payload["products"][i]
                       /\ payload["products"][i]["health_ratio"] = ratio(i)
           /\ (\A j \in 1..Len(products) : built(j))
                => /\ response.status = "ok"
                   /\ Len(response.value.products) = Len(products)
                   /\ \A i \in 1..Len(products) :
                        /\ response.value.products[i].health_ratio = ratio(i)
                        /\ "groups" \notin DOMAIN response.value.products[i]

C4_Witness ==
    /\ target = "ZkLendPositionResponse"
    /\ HasProducts(given)
    /\ Len(given["products"]) = 1
    /\ HasGroupOneRatio(given["products"][1])
    /\ DOMAIN given["products"][1]["groups"] = {"1", "2"}
    /\ response.status = "ok"
    /\ response.value.products[1].health_ratio = PyStr("1.5")

\* C10: when the validation succeeds the output products are, in order and
\* one for one, the Products built from the raw products.
C10_OrderPreserved ==
    (/\ target = "ZkLendPositionResponse"
     /\ Called
     /\ HasProducts(given)
     /\ response.status = "ok")
    => /\ Len(response.value.products) = Len(given["products"])
       /\ \A i \in 1..Len(given["products"]) :
            response.value.products[i]
                = Product(Reshaped(given["products"][i])).value

C10_Witness ==
    /\ target = "ZkLendPositionResponse"
    /\ HasProducts(given)
    /\ response.status = "ok"
    /\ Len(response.value.products) = 2
    /\ response.value.products[1].health_ratio = PyStr("1.5")
    /\ response.value.products[2].health_ratio = PyStr("2.0")
    /\ Len(response.value.products[1].positions) = 0
    /\ Len(response.value.products[2].positions) = 1

\* C6: validating leaves the caller's raw payload as it was before the call,
\* whether the validation succeeds or fails.
C6_PayloadUnchanged == Called => payload = given

----------------------------------------------------------------------------
(* Claims about Position aliases. *)

OtherSpelling(k) ==
    CASE k = "tokenAddress" -> "token_address"
      [] k = "token_address" -> "tokenAddress"
      [] k = "totalBalances" -> "total_balances"
      [] k = "total_balances" -> "totalBalances"
      [] OTHER -> k

\* The same raw position with each aliased key in its other spelling.
Respell(p) == [k \in {OtherSpelling(j) : j \in DOMAIN p} |-> p[OtherSpelling(k)]]

RespellProduct(product) ==
    IF "positions" \notin DOMAIN product THEN product
    ELSE SetItem(product, "positions",
                 [j \in 1..Len(product["positions"]) |->
                     Respell(product["positions"][j])])

RespellProducts(raw) ==
    IF ~HasProducts(raw) THEN raw
    ELSE [products |-> [i \in 1..Len(raw["products"]) |->
                           RespellProduct(raw["products"][i])]]

SameOutcome(a, b) ==
    /\ a.status = b.status
    /\ a.error = b.error
    /\ a.status = "ok" => a.value = b.value

\* C9: a position is accepted under the wire names and under the internal
\* names, and two inputs that differ only in the spelling validate to the
\* same outcome, directly and inside a product of ZkLendPositionResponse.
C9_SpellingsEquivalent ==
    /\ (target = "Position" /\ Called)
        => /\ SameOutcome(response, Position(Respell(given)))
           /\ LET key == FieldKey(given, "totalBalances", "total_balances")
              IN  (/\ "data" \in DOMAIN given
                   /\ {"totalBalances", "total_balances"} \cap DOMAIN given # {})
                  => /\ key # ""
                     /\ FirstFailing(given[key]) = 0 => response.status = "ok"
    /\ (target = "ZkLendPositionResponse" /\ Called)
        => SameOutcome(response, ZkLendPositionResponse(RespellProducts(given)).result)

C9_Witness ==
    /\ target = "ZkLendPositionResponse"
    /\ HasProducts(given)
    /\ Len(given["products"]) = 2
    /\ Len(given["products"][1]["positions"]) = 1
    /\ Len(given["products"][2]["positions"]) = 1
    /\ "totalBalances" \in DOMAIN given["products"][1]["positions"][1]
    /\ "total_balances" \in DOMAIN given["products"][2]["positions"][1]
    /\ response.status = "ok"
    /\ response.value.products[1].positions = response.value.products[2].positions

----------------------------------------------------------------------------
(* Claims about DashboardResponse. *)

\* C8: a payload that lacks any of the four top-level fields is rejected.
C8_MissingTopLevelRejected ==
    (/\ target = "DashboardResponse"
     /\ Called
     /\ \E f \in InternalKeys : f \notin DOMAIN given)
    => response.status # "ok"

C8_Witness ==
    /\ target = "DashboardResponse"
    /\ DOMAIN given = InternalKeys \ {"zklend_position"}
    /\ response.status = "ValidationError"

EndToEndProduct ==
    SetItem([name |-> "P1",
             positions |-> <<RawPosition(TRUE, "tokenAddress", "totalBalances",
                                         <<<<"0xTOK", Million>>>>)>>],
            "groups", SetItem(EmptyDict, "1", Group("2.0")))

====
